---- MODULE Spec2Model ----
(***************************************************************************)
(* Model of .github/scripts/merge-eligibility.mjs: the merge-eligibility   *)
(* evaluator (evaluateMergeEligibilitySnapshot) and the fetcher that       *)
(* assembles its input from the remote API (evaluateMergeEligibility).     *)
(*                                                                         *)
(* Representation of JavaScript values:                                    *)
(*  - a string that the code slices or prefix-tests is a sequence of       *)
(*    tokens (a sha is a sequence of hex digits, a check name and a file   *)
(*    path are sequences of string pieces), so that slice and startsWith   *)
(*    are                                                                  *)
(*    computed; the empty sequence is the empty/absent (falsy) string;     *)
(*  - null is the string "null"; pr.mergeable is "true", "false" or "null";*)
(*  - a timestamp is the number of its Date(...).getTime(), 0 for a        *)
(*    missing (null) timestamp, which `a || b || 0` treats as falsy;       *)
(*  - a Map is the sequence of its values in insertion order.              *)
(***************************************************************************)
EXTENDS Integers, Sequences, FiniteSets

\* Arguments of evaluateMergeEligibilitySnapshot and its returned decision.  In
\* the fetcher, pr, workflowFilesChanged and checkRuns are the locals of
\* evaluateMergeEligibility that it passes on.
VARIABLES pr, expectedHeadSha, requireWorkflowSafety, workflowFilesChanged,
          checkRuns, result

evalVars == <<pr, expectedHeadSha, requireWorkflowSafety, workflowFilesChanged,
              checkRuns, result>>

\* One call of evaluateMergeEligibility.
\*   call             its arguments owner, repo, prNumber and token, the
\*                    token with its default applied (the argument, else
\*                    GITHUB_TOKEN, else GH_TOKEN); "" and 0 are the missing
\*                    or empty (falsy) values
\*   pc               where the call stands: "idle", "pr" (awaiting the pull
\*                    request), "sleep" (awaiting the timer), "files" (awaiting
\*                    a page of files), "checks" (awaiting the check runs),
\*                    "done" (returned a decision), "error" (threw),
\*                    "stalled" (awaiting a response that never comes)
\*   attempt          the loop variable of the mergeability retry loop
\*   page, allItems   the locals of githubList
\*   requests         every request issued so far, in order
\*   inflight         the positions in requests that have no response yet
\*   responses        how each answered request was answered, in order: the
\*                    kind of response and, of a pull request, mergeable
\*                    and head.sha
\* and what the remote API holds:
\*   remoteFiles      the changed files of the pull request
\*   remoteCheckRuns  the check runs of the commit asked for
VARIABLES call, pc, attempt, page, allItems, requests, inflight, responses,
          remoteFiles, remoteCheckRuns

fetchVars == <<call, pc, attempt, page, allItems, requests, inflight, responses,
               remoteFiles, remoteCheckRuns>>

inputVars == <<pr, expectedHeadSha, requireWorkflowSafety, workflowFilesChanged>>

(***************************************************************************)
(* Values                                                                  *)
(***************************************************************************)
NoPr == [isNull |-> TRUE]

NoRun == [missing |-> TRUE]

NoDecision == [reason |-> "none"]

Min(a, b) == IF a <= b THEN a ELSE b

QualityName == <<"Quality">>

ReviewName == <<"review">>

WorkflowSafetyName == <<"Workflow Safety">>

AutomationGateName == <<"Automation Gate">>

CoveragePrefix == <<"Coverage Gate (">>

CoverageUnit == <<"Coverage Gate (", "unit)">>

CoverageE2e == <<"Coverage Gate (", "e2e)">>

NoAutoMergeLabel == "no-auto-merge"

(***************************************************************************)
(* Pure helpers                                                            *)
(***************************************************************************)
\* String.prototype.startsWith on token sequences.
StartsWith(s, prefix) ==
    /\ Len(s) >= Len(prefix)
    /\ SubSeq(s, 1, Len(prefix)) = prefix

\* Array.prototype.includes.
Includes(seq, x) == \E i \in 1..Len(seq) : seq[i] = x

\* shortSha: sha ? sha.slice(0, 7) : 'unknown'
shortSha(sha) == IF sha = <<>> THEN <<"unknown">> ELSE SubSeq(sha, 1, Min(7, Len(sha)))

\* Mutant: every conclusion of a completed run counts as successful.
isSuccessfulConclusion_AnyConclusion(conclusion) == conclusion # "null"

isSuccessfulConclusion(conclusion) == conclusion = "success" \/ conclusion = "skipped"

\* new Date(run.started_at || run.completed_at || 0).getTime()
runTime(run) ==
    IF run.started_at # 0 THEN run.started_at
    ELSE IF run.completed_at # 0 THEN run.completed_at
    ELSE 0

\* Position of the entry with this name in a Map's insertion-ordered values, 0 if absent.
MapIndex(byName, name) ==
    IF \E i \in 1..Len(byName) : byName[i].name = name
    THEN CHOOSE i \in 1..Len(byName) : byName[i].name = name
    ELSE 0

\* Map.prototype.get
MapGet(byName, name) ==
    IF MapIndex(byName, name) = 0 THEN NoRun ELSE byName[MapIndex(byName, name)]

\* Mutant: the run that comes last in the list replaces the entry, whatever
\* its time.
latestStep_LastInListWins(byName, run) ==
    LET i == MapIndex(byName, run.name) IN
    IF i = 0 THEN Append(byName, run) ELSE [byName EXCEPT ![i] = run]

\* Mutant: of two runs with the same time the earlier one in the list stays.
latestStep_FirstOfEqualStays(byName, run) ==
    LET i == MapIndex(byName, run.name) IN
    IF i = 0 THEN Append(byName, run)
    ELSE IF runTime(run) > runTime(byName[i])
         THEN [byName EXCEPT ![i] = run]
         ELSE byName

\* One iteration of the loop of latestRunsByName.
latestStep(byName, run) ==
    LET i == MapIndex(byName, run.name) IN
    IF i = 0 THEN Append(byName, run)
    ELSE IF runTime(run) >= runTime(byName[i])
         THEN [byName EXCEPT ![i] = run]
         ELSE byName

\* The loop of latestRunsByName over runs[lo..hi], in list order.  The range
\* is halved and the Map of the left half is computed before the right half
\* starts, which keeps the evaluation depth small on lists of a full page.
RECURSIVE latestFold(_, _, _, _)
latestFold(byName, runs, lo, hi) ==
    IF lo > hi THEN byName
    ELSE IF lo = hi THEN latestStep(byName, runs[lo])
    ELSE LET mid == (lo + hi) \div 2
             left == latestFold(byName, runs, lo, mid)
         IN IF Len(left) >= 0 THEN latestFold(left, runs, mid + 1, hi) ELSE left

latestRunsByName(runs) == latestFold(<<>>, runs, 1, Len(runs))

\* Mutant: eligible is set apart from the reason.
decision_EligibleUnlessFailed(reason, details, requiresWorkflowSafety) ==
    [eligible |-> (reason \in {"safe_to_merge", "pending_checks"}),
     reason |-> reason,
     details |-> details,
     requires_workflow_safety |-> requiresWorkflowSafety]

decision(reason, details, requiresWorkflowSafety) ==
    [eligible |-> (reason = "safe_to_merge"),
     reason |-> reason,
     details |-> details,
     requires_workflow_safety |-> requiresWorkflowSafety]

\* A details string: the fixed text, the interpolated strings (each a token
\* sequence), the interpolated number.
Text(msg, args, n) == [msg |-> msg, args |-> args, n |-> n]

\* `${run.status}/${run.conclusion || 'none'}`, 'missing' for no run
runStatusSummary(run) ==
    IF run = NoRun THEN <<"missing">>
    ELSE <<run.status, "/", IF run.conclusion = "null" THEN "none" ELSE run.conclusion>>

isCoverageRun(run) == StartsWith(run.name, CoveragePrefix)

isPending(run) == run.status # "completed"

isFailed(run) == run.status = "completed" /\ ~isSuccessfulConclusion(run.conclusion)

RECURSIVE namesOf(_)
namesOf(runs) ==
    IF runs = <<>> THEN <<>> ELSE <<Head(runs).name>> \o namesOf(Tail(runs))

RECURSIVE failedLabels(_)
failedLabels(runs) ==
    IF runs = <<>> THEN <<>>
    ELSE <<Head(runs).name \o <<" (", Head(runs).conclusion, ")">> >> \o failedLabels(Tail(runs))

\* Mutant: behind_main is tested before merge_conflict.
gateDecision_BehindBeforeConflict(p, expected) ==
    IF p = NoPr \/ p.state # "open"
    THEN decision("pr_not_open", Text("PR is not open", <<>>, 0), FALSE)
    ELSE IF expected # <<>> /\ p.head_sha # expected
    THEN decision("sha_mismatch",
                  Text("PR head changed", <<shortSha(expected), shortSha(p.head_sha)>>, 0), FALSE)
    ELSE IF Includes(p.labels, NoAutoMergeLabel)
    THEN decision("no_auto_merge_label", Text("PR has the no-auto-merge label", <<>>, 0), FALSE)
    ELSE IF p.mergeable = "null"
    THEN decision("pending_checks", Text("GitHub mergeability is still being calculated", <<>>, 0), FALSE)
    ELSE IF p.mergeable_state = "behind"
    THEN decision("behind_main", Text("PR branch is behind main and needs update", <<>>, 0), FALSE)
    ELSE IF p.mergeable = "false" \/ p.mergeable_state = "dirty"
    THEN decision("merge_conflict", Text("PR currently has merge conflicts with main", <<>>, 0), FALSE)
    ELSE NoDecision

\* Lines 131-158: the first six gates, NoDecision when none of them matches.
gateDecision(p, expected) ==
    IF p = NoPr \/ p.state # "open"
    THEN decision("pr_not_open", Text("PR is not open", <<>>, 0), FALSE)
    ELSE IF expected # <<>> /\ p.head_sha # expected
    THEN decision("sha_mismatch",
                  Text("PR head changed", <<shortSha(expected), shortSha(p.head_sha)>>, 0), FALSE)
    ELSE IF Includes(p.labels, NoAutoMergeLabel)
    THEN decision("no_auto_merge_label", Text("PR has the no-auto-merge label", <<>>, 0), FALSE)
    ELSE IF p.mergeable = "null"
    THEN decision("pending_checks", Text("GitHub mergeability is still being calculated", <<>>, 0), FALSE)
    ELSE IF p.mergeable = "false" \/ p.mergeable_state = "dirty"
    THEN decision("merge_conflict", Text("PR currently has merge conflicts with main", <<>>, 0), FALSE)
    ELSE IF p.mergeable_state = "behind"
    THEN decision("behind_main", Text("PR branch is behind main and needs update", <<>>, 0), FALSE)
    ELSE NoDecision

\* Mutant: the Workflow Safety run is looked at whether it is required or not.
workflowSafetyDecision_AlwaysChecked(workflowSafetyRun, requiresWorkflowSafety) ==
    IF workflowSafetyRun = NoRun
    THEN IF requiresWorkflowSafety
         THEN decision("workflow_safety_missing",
                       Text("Workflow Safety check is required for workflow-file changes but is missing", <<>>, 0),
                       requiresWorkflowSafety)
         ELSE NoDecision
    ELSE IF workflowSafetyRun.status # "completed"
    THEN decision("pending_checks", Text("Workflow Safety check is still running", <<>>, 0),
                  requiresWorkflowSafety)
    ELSE IF ~isSuccessfulConclusion(workflowSafetyRun.conclusion)
    THEN decision("workflow_safety_failed",
                  Text("Workflow Safety check failed with conclusion", << <<workflowSafetyRun.conclusion>> >>, 0),
                  requiresWorkflowSafety)
    ELSE NoDecision

\* Mutant: the status of the Workflow Safety run is not looked at.
workflowSafetyDecision_NoStatusCheck(workflowSafetyRun, requiresWorkflowSafety) ==
    IF ~requiresWorkflowSafety THEN NoDecision
    ELSE IF workflowSafetyRun = NoRun
    THEN decision("workflow_safety_missing",
                  Text("Workflow Safety check is required for workflow-file changes but is missing", <<>>, 0),
                  requiresWorkflowSafety)
    ELSE IF ~isSuccessfulConclusion(workflowSafetyRun.conclusion)
    THEN decision("workflow_safety_failed",
                  Text("Workflow Safety check failed with conclusion", << <<workflowSafetyRun.conclusion>> >>, 0),
                  requiresWorkflowSafety)
    ELSE NoDecision

\* Lines 216-238: the Workflow Safety gate.
workflowSafetyDecision(workflowSafetyRun, requiresWorkflowSafety) ==
    IF ~requiresWorkflowSafety THEN NoDecision
    ELSE IF workflowSafetyRun = NoRun
    THEN decision("workflow_safety_missing",
                  Text("Workflow Safety check is required for workflow-file changes but is missing", <<>>, 0),
                  requiresWorkflowSafety)
    ELSE IF workflowSafetyRun.status # "completed"
    THEN decision("pending_checks", Text("Workflow Safety check is still running", <<>>, 0),
                  requiresWorkflowSafety)
    ELSE IF ~isSuccessfulConclusion(workflowSafetyRun.conclusion)
    THEN decision("workflow_safety_failed",
                  Text("Workflow Safety check failed with conclusion", << <<workflowSafetyRun.conclusion>> >>, 0),
                  requiresWorkflowSafety)
    ELSE NoDecision

\* Lines 168-176: a required run that is not in the Map.
missingDecision(qualityRun, reviewRun, coverageRuns, requiresWorkflowSafety) ==
    IF qualityRun = NoRun
    THEN decision("pending_checks", Text("Quality check has not started yet", <<>>, 0),
                  requiresWorkflowSafety)
    ELSE IF reviewRun = NoRun
    THEN decision("pending_checks", Text("review check has not started yet", <<>>, 0),
                  requiresWorkflowSafety)
    ELSE IF Len(coverageRuns) = 0
    THEN decision("pending_checks", Text("Coverage Gate checks have not started yet", <<>>, 0),
                  requiresWorkflowSafety)
    ELSE NoDecision

\* Mutant: the review run is looked at before the runs that are still running.
requiredDecision_ReviewBeforePending(qualityRun, reviewRun, coverageRuns, requiresWorkflowSafety) ==
    LET requiredRuns == <<qualityRun>> \o coverageRuns \o <<reviewRun>>
        pendingRequiredChecks == namesOf(SelectSeq(requiredRuns, isPending))
        failedRequiredChecks == failedLabels(SelectSeq(requiredRuns, isFailed))
    IN
    IF reviewRun.status = "completed" /\ ~isSuccessfulConclusion(reviewRun.conclusion)
    THEN decision("review_failed", Text("review check failed with conclusion", << <<reviewRun.conclusion>> >>, 0),
                  requiresWorkflowSafety)
    ELSE IF Len(pendingRequiredChecks) > 0
    THEN decision("pending_checks", Text("Required checks still running", pendingRequiredChecks, 0),
                  requiresWorkflowSafety)
    ELSE IF Len(failedRequiredChecks) > 0
    THEN decision("pending_checks", Text("Required checks failed", failedRequiredChecks, 0),
                  requiresWorkflowSafety)
    ELSE NoDecision

\* Mutant: the failed required runs are reported before the review run is
\* looked at.
requiredDecision_FailedBeforeReview(qualityRun, reviewRun, coverageRuns, requiresWorkflowSafety) ==
    LET requiredRuns == <<qualityRun>> \o coverageRuns \o <<reviewRun>>
        pendingRequiredChecks == namesOf(SelectSeq(requiredRuns, isPending))
        failedRequiredChecks == failedLabels(SelectSeq(requiredRuns, isFailed))
    IN
    IF Len(pendingRequiredChecks) > 0
    THEN decision("pending_checks", Text("Required checks still running", pendingRequiredChecks, 0),
                  requiresWorkflowSafety)
    ELSE IF Len(failedRequiredChecks) > 0
    THEN decision("pending_checks", Text("Required checks failed", failedRequiredChecks, 0),
                  requiresWorkflowSafety)
    ELSE IF reviewRun.status = "completed" /\ ~isSuccessfulConclusion(reviewRun.conclusion)
    THEN decision("review_failed", Text("review check failed with conclusion", << <<reviewRun.conclusion>> >>, 0),
                  requiresWorkflowSafety)
    ELSE NoDecision

\* Lines 178-214: the required runs that are still running, then the failed ones.
requiredDecision(qualityRun, reviewRun, coverageRuns, requiresWorkflowSafety) ==
    LET requiredRuns == <<qualityRun>> \o coverageRuns \o <<reviewRun>>
        pendingRequiredChecks == namesOf(SelectSeq(requiredRuns, isPending))
        failedRequiredChecks == failedLabels(SelectSeq(requiredRuns, isFailed))
    IN
    IF Len(pendingRequiredChecks) > 0
    THEN decision("pending_checks", Text("Required checks still running", pendingRequiredChecks, 0),
                  requiresWorkflowSafety)
    ELSE IF reviewRun.status = "completed" /\ ~isSuccessfulConclusion(reviewRun.conclusion)
    THEN decision("review_failed", Text("review check failed with conclusion", << <<reviewRun.conclusion>> >>, 0),
                  requiresWorkflowSafety)
    ELSE IF Len(failedRequiredChecks) > 0
    THEN decision("pending_checks", Text("Required checks failed", failedRequiredChecks, 0),
                  requiresWorkflowSafety)
    ELSE NoDecision

\* Lines 160-245: everything after the first six gates.
checksDecision(p, requireWS, filesChanged, runs) ==
    LET requiresWorkflowSafety == requireWS /\ filesChanged
        byName == latestRunsByName(runs)
        qualityRun == MapGet(byName, QualityName)
        reviewRun == MapGet(byName, ReviewName)
        coverageRuns == SelectSeq(byName, isCoverageRun)
        workflowSafetyRun == MapGet(byName, WorkflowSafetyName)
        missing == missingDecision(qualityRun, reviewRun, coverageRuns, requiresWorkflowSafety)
        required == requiredDecision(qualityRun, reviewRun, coverageRuns, requiresWorkflowSafety)
        workflowSafety == workflowSafetyDecision(workflowSafetyRun, requiresWorkflowSafety)
    IN
    IF missing # NoDecision THEN missing
    ELSE IF required # NoDecision THEN required
    ELSE IF workflowSafety # NoDecision THEN workflowSafety
    ELSE decision("safe_to_merge",
                  Text("All required checks passed",
                       <<shortSha(p.head_sha), runStatusSummary(qualityRun), runStatusSummary(reviewRun)>>,
                       Len(coverageRuns)),
                  requiresWorkflowSafety)

evaluateMergeEligibilitySnapshot(p, expected, requireWS, filesChanged, runs) ==
    IF gateDecision(p, expected) # NoDecision
    THEN gateDecision(p, expected)
    ELSE checksDecision(p, requireWS, filesChanged, runs)

(***************************************************************************)
(* Inputs of the evaluator                                                 *)
(***************************************************************************)
MaxRuns == 3

MaxCheckRuns == 4

MaxDedupRuns == 5

MaxTimedRuns == 5

MaxSafeRuns == 5

ShaA == <<"a", "1", "b", "2", "c", "3", "d", "4">>

ShaB == <<"a", "1", "b", "2", "c", "3", "d", "5">>

PrStates == {"open", "closed"}

Shas == {ShaA, ShaB}

LabelLists == {<<>>, <<"bug", NoAutoMergeLabel>>}

Mergeables == {"true", "false", "null"}

MergeableStates == {"clean", "dirty", "behind"}

PullRequests ==
    {NoPr} \cup
    [state : PrStates, head_sha : Shas, labels : LabelLists,
     mergeable : Mergeables, mergeable_state : MergeableStates]

ExpectedShas == {<<>>, ShaA}

CleanPr ==
    [state |-> "open", head_sha |-> ShaA, labels |-> <<>>,
     mergeable |-> "true", mergeable_state |-> "clean"]

Success == <<"completed", "success">>

Skipped == <<"completed", "skipped">>

Failure == <<"completed", "failure">>

InProgress == <<"in_progress", "null">>

Run(name, outcome, started, completed) ==
    [name |-> name, status |-> outcome[1], conclusion |-> outcome[2],
     started_at |-> started, completed_at |-> completed]

\* Check runs of the gate specification: the three required names.
GateRuns ==
    {Run(n, o, 1, 0) : n \in {QualityName, ReviewName, CoverageUnit},
                       o \in {Success, Failure, InProgress}}

\* Check runs of the required-checks specification: Quality, review and
\* Workflow Safety as passed, failed and unfinished runs, a coverage check as a
\* passed and a failed run, a skipped review, and a run of a name the code
\* ignores.
CheckRuns ==
    {Run(n, o, 1, 0) : n \in {QualityName, ReviewName, WorkflowSafetyName},
                       o \in {Success, Failure, InProgress}}
    \cup {Run(CoverageUnit, Success, 1, 0), Run(CoverageUnit, Failure, 1, 0)}
    \cup {Run(ReviewName, Skipped, 1, 0)}
    \cup {Run(AutomationGateName, Success, 1, 0)}

\* Check runs of the deduplication specification: re-runs of one coverage
\* check and of the review check with different timestamps and outcomes, and a
\* second coverage check.
DedupRuns ==
    {Run(CoverageUnit, o, t, 0) : o \in {Success, Failure, InProgress}, t \in {1, 2}}
    \cup {Run(CoverageE2e, Failure, 1, 0), Run(CoverageE2e, InProgress, 1, 0)}
    \cup {Run(QualityName, Success, 1, 0)}
    \cup {Run(ReviewName, Success, 1, 0), Run(ReviewName, Failure, 2, 0)}

\* Check runs of the timestamp specification: runs of two names with a
\* started_at, with a completed_at only and with neither, several of them with
\* the same timestamp and different outcomes.
TimedRuns ==
    {Run(CoverageUnit, Success, 2, 0), Run(CoverageUnit, Failure, 2, 3),
     Run(CoverageUnit, InProgress, 1, 0), Run(CoverageUnit, Failure, 0, 2),
     Run(CoverageUnit, Success, 0, 0), Run(CoverageUnit, Skipped, 0, 0),
     Run(ReviewName, Success, 1, 0), Run(ReviewName, Failure, 0, 1),
     Run(QualityName, Success, 0, 0)}

\* Check runs of the safe-to-merge specification: every name the evaluator
\* looks up, two coverage checks, and for review, one coverage check and
\* Workflow Safety an earlier failed run beside a later passed one.
SafeRuns ==
    {Run(QualityName, Success, 1, 0),
     Run(ReviewName, Failure, 1, 0), Run(ReviewName, Success, 2, 0),
     Run(CoverageUnit, Success, 1, 0),
     Run(CoverageE2e, Failure, 1, 0), Run(CoverageE2e, Success, 2, 0),
     Run(WorkflowSafetyName, Failure, 1, 0), Run(WorkflowSafetyName, Success, 2, 0)}

\* Pull request snapshots of the safe-to-merge specification: one that passes
\* the first six gates, and for each of those gates one that it stops.
SafePrs ==
    {CleanPr, NoPr,
     [CleanPr EXCEPT !.state = "closed"],
     [CleanPr EXCEPT !.head_sha = ShaB],
     [CleanPr EXCEPT !.labels = <<"bug", NoAutoMergeLabel>>],
     [CleanPr EXCEPT !.mergeable = "null"],
     [CleanPr EXCEPT !.mergeable = "false"],
     [CleanPr EXCEPT !.mergeable_state = "dirty"],
     [CleanPr EXCEPT !.mergeable_state = "behind"]}

\* No call of evaluateMergeEligibility is under way.
FetchIdle ==
    /\ call = [owner |-> "o", repo |-> "r", prNumber |-> 1, token |-> "t"]
    /\ pc = "idle"
    /\ attempt = 0
    /\ page = 0
    /\ allItems = <<>>
    /\ requests = <<>>
    /\ inflight = {}
    /\ responses = <<>>
    /\ remoteFiles = <<>>
    /\ remoteCheckRuns = <<>>

(***************************************************************************)
(* The evaluator applied to inputs                                         *)
(***************************************************************************)
\* Spec: every pull request snapshot and flag, check runs from GateRuns.
Init ==
    /\ pr \in PullRequests
    /\ expectedHeadSha \in ExpectedShas
    /\ requireWorkflowSafety \in BOOLEAN
    /\ workflowFilesChanged \in BOOLEAN
    /\ checkRuns = <<>>
    /\ result = NoDecision
    /\ FetchIdle

\* ChecksSpec: a pull request that passes the first six gates, every flag,
\* check runs from CheckRuns.
InitChecks ==
    /\ pr = CleanPr
    /\ expectedHeadSha = ShaA
    /\ requireWorkflowSafety \in BOOLEAN
    /\ workflowFilesChanged \in BOOLEAN
    /\ checkRuns = <<>>
    /\ result = NoDecision
    /\ FetchIdle

\* DedupSpec: a pull request that passes the first six gates, no workflow
\* safety, check runs from DedupRuns.
InitDedup ==
    /\ pr = CleanPr
    /\ expectedHeadSha = <<>>
    /\ requireWorkflowSafety = FALSE
    /\ workflowFilesChanged = FALSE
    /\ checkRuns = <<>>
    /\ result = NoDecision
    /\ FetchIdle

\* SafeSpec: the pull requests of SafePrs, check runs from SafeRuns.  The
\* pull request that passes the first six gates comes with every combination
\* of the two flags and, with both flags set, without an expected sha; the
\* others come with the expected sha ShaA and both flags set.
InitSafe ==
    /\ pr \in SafePrs
    /\ expectedHeadSha \in ExpectedShas
    /\ requireWorkflowSafety \in BOOLEAN
    /\ workflowFilesChanged \in BOOLEAN
    /\ (pr # CleanPr \/ expectedHeadSha = <<>>) =>
           (requireWorkflowSafety /\ workflowFilesChanged)
    /\ pr # CleanPr => expectedHeadSha = ShaA
    /\ checkRuns = <<>>
    /\ result = NoDecision
    /\ FetchIdle

\* The caller's snapshot gains one more check run.
ReportRunFrom(runs, max) ==
    /\ result = NoDecision
    /\ Len(checkRuns) < max
    /\ \E run \in runs : checkRuns' = Append(checkRuns, run)
    /\ UNCHANGED <<inputVars, result, fetchVars>>

ReportRun == ReportRunFrom(GateRuns, MaxRuns)

ReportCheckRun == ReportRunFrom(CheckRuns, MaxCheckRuns)

ReportRerun == ReportRunFrom(DedupRuns, MaxDedupRuns)

Evaluate ==
    /\ result = NoDecision
    /\ result' = evaluateMergeEligibilitySnapshot(pr, expectedHeadSha, requireWorkflowSafety,
                                                   workflowFilesChanged, checkRuns)
    /\ UNCHANGED <<inputVars, checkRuns, fetchVars>>

vars == <<evalVars, fetchVars>>

Next == ReportRun \/ Evaluate

Spec == Init /\ [][Next]_vars

NextChecks == ReportCheckRun \/ Evaluate

ChecksSpec == InitChecks /\ [][NextChecks]_vars

NextDedup == ReportRerun \/ Evaluate

DedupSpec == InitDedup /\ [][NextDedup]_vars

ReportSafeRun == ReportRunFrom(SafeRuns, MaxSafeRuns)

NextSafe == ReportSafeRun \/ Evaluate

SafeSpec == InitSafe /\ [][NextSafe]_vars

\* LatestSpec: as DedupSpec, check runs from TimedRuns.
ReportTimedRun == ReportRunFrom(TimedRuns, MaxTimedRuns)

NextLatest == ReportTimedRun \/ Evaluate

LatestSpec == InitDedup /\ [][NextLatest]_vars

(***************************************************************************)
(* Long lists.  A list the remote API holds can be longer than a page of   *)
(* 100, so a list of the fetcher is a sequence of blocks [item, n], each   *)
(* standing for n >= 1 consecutive copies of item; adjacent blocks hold    *)
(* different items.  The operators below are the list operations on that   *)
(* representation.                                                         *)
(***************************************************************************)
Block(item, n) == [item |-> item, n |-> n]

RECURSIVE ListLen(_)
ListLen(l) == IF l = <<>> THEN 0 ELSE Head(l).n + ListLen(Tail(l))

\* Concatenation (Array.prototype.push(...data)).
ListConcat(a, b) ==
    IF a = <<>> THEN b
    ELSE IF b = <<>> THEN a
    ELSE IF a[Len(a)].item = b[1].item
    THEN SubSeq(a, 1, Len(a) - 1) \o <<Block(b[1].item, a[Len(a)].n + b[1].n)>> \o Tail(b)
    ELSE a \o b

\* The first k items.
RECURSIVE ListTake(_, _)
ListTake(l, k) ==
    IF l = <<>> \/ k <= 0 THEN <<>>
    ELSE IF Head(l).n <= k THEN <<Head(l)>> \o ListTake(Tail(l), k - Head(l).n)
    ELSE <<Block(Head(l).item, k)>>

\* All but the first k items.
RECURSIVE ListDrop(_, _)
ListDrop(l, k) ==
    IF l = <<>> \/ k <= 0 THEN l
    ELSE IF Head(l).n <= k THEN ListDrop(Tail(l), k - Head(l).n)
    ELSE <<Block(Head(l).item, Head(l).n - k)>> \o Tail(l)

\* The list written out item by item.
RECURSIVE ListItems(_)
ListItems(l) ==
    IF l = <<>> THEN <<>>
    ELSE [i \in 1..Head(l).n |-> Head(l).item] \o ListItems(Tail(l))

\* A list of blocks from parts that may be empty.
RECURSIVE ListOf(_)
ListOf(parts) ==
    IF parts = <<>> THEN <<>>
    ELSE IF Head(parts).n = 0 THEN ListOf(Tail(parts))
    ELSE ListConcat(<<Head(parts)>>, ListOf(Tail(parts)))

(***************************************************************************)
(* The remote API                                                          *)
(***************************************************************************)
PerPage == 100

MaxPagesDefault == 20

MaxAttempts == 4

\* The remote holds up to this many full pages of changed files (more than the
\* page cap of githubList).
MaxRemotePages == 21

WorkflowsPrefix == <<".github/", "workflows/">>

PlainFile == <<"src/", "index.js">>

WorkflowFile == <<".github/", "workflows/", "ci.yml">>

ScriptFile == <<".github/", "workflows.md">>

\* How many full pages of changed files the remote may hold: none, a few, and
\* around the page cap of githubList.
RemotePageCounts ==
    {0, 1, 2, MaxPagesDefault - 1, MaxPagesDefault, MaxRemotePages}

\* Changed-file lists of q full pages and r more files, q from counts: all
\* plain, or with one file under .github/workflows/ (or one beside it) in
\* first or in last position.
FileLists(counts) ==
    {ListOf(<<Block(PlainFile, q * PerPage + r)>>) : q \in counts, r \in {0, 1}}
    \cup {ListOf(<<Block(f, 1), Block(PlainFile, q * PerPage + r)>>) :
              q \in counts, r \in {0, 1}, f \in {WorkflowFile}}
    \cup {ListOf(<<Block(PlainFile, q * PerPage + r), Block(f, 1)>>) :
              q \in counts, r \in {0, 1}, f \in {WorkflowFile, ScriptFile}}

\* The changed files the remote may hold, up to beyond the page cap.
RemoteFileLists == FileLists(RemotePageCounts)

\* The changed files the remote may hold, up to three pages.
ShortFileLists == FileLists({0, 1, 2})

\* What "list pull request files" answers for a page: that slice of the list.
FilesPage(files, p) == ListTake(ListDrop(files, (p - 1) * PerPage), PerPage)

OtherRun == Run(AutomationGateName, Success, 1, 0)

PassingRuns ==
    <<Block(Run(QualityName, Success, 1, 0), 1), Block(Run(ReviewName, Success, 1, 0), 1),
      Block(Run(CoverageUnit, Success, 1, 0), 1)>>

\* The check runs the remote may hold for a commit: the passing required runs,
\* with nothing, a failed re-run of review or a Workflow Safety run after them,
\* behind 0, 97 or 100 runs of another check; or nothing at all.
RemoteRunLists ==
    {<<>>} \cup
    {ListOf(<<Block(OtherRun, k)>> \o PassingRuns \o tail) :
         k \in {0, PerPage - 3, PerPage},
         tail \in {<<>>, <<Block(Run(ReviewName, Failure, 2, 0), 1)>>,
                   <<Block(Run(WorkflowSafetyName, Success, 1, 0), 1)>>}}

\* What "list check runs for a commit" answers to ?per_page=100: the first page.
CheckRunsPage(runs) == ListTake(runs, PerPage)

\* The pull request as "get pull request" may report it.
RemotePr(sha, mergeable) ==
    [state |-> "open", head_sha |-> sha, labels |-> <<>>, mergeable |-> mergeable,
     mergeable_state |-> CASE mergeable = "true" -> "clean"
                           [] mergeable = "false" -> "dirty"
                           [] OTHER -> "unknown"]

\* Pull requests whose mergeability is unknown and which one of the first
\* three gates stops: a closed one and one with the no-auto-merge label.
StoppedPrs ==
    {[RemotePr(ShaA, "null") EXCEPT !.state = "closed"],
     [RemotePr(ShaA, "null") EXCEPT !.labels = <<NoAutoMergeLabel>>]}

RemotePrs == {RemotePr(sha, m) : sha \in Shas, m \in Mergeables} \cup StoppedPrs

\* One pull request whose mergeability is known or not yet.
ListPrs == {RemotePr(ShaA, "true"), RemotePr(ShaA, "null")}

\* The check runs of one commit: none, or the passing required runs.
ListRunLists == {<<>>, ListOf(PassingRuns)}

\* How a request can be answered: a 2xx status with a body, 204 without a body
\* (githubRequest returns null), or a status that is not ok (githubRequest throws).
ResponseKinds == {"ok", "no_content", "error"}

(***************************************************************************)
(* evaluateMergeEligibility                                                *)
(***************************************************************************)
Calls ==
    [owner : {"", "o"}, repo : {"", "r"}, prNumber : {0, 1}, token : {"", "t"}]

InitFetch ==
    /\ call \in Calls
    /\ expectedHeadSha \in ExpectedShas
    /\ requireWorkflowSafety \in BOOLEAN
    /\ pr = NoPr
    /\ workflowFilesChanged = FALSE
    /\ checkRuns = <<>>
    /\ result = NoDecision
    /\ pc = "idle"
    /\ attempt = 0
    /\ page = 0
    /\ allItems = <<>>
    /\ requests = <<>>
    /\ inflight = {}
    /\ responses = <<>>
    /\ remoteFiles \in ShortFileLists
    /\ remoteCheckRuns = <<>>

PrRequest == [kind |-> "pr", page |-> 0, sha |-> <<>>]

FilesRequest(p) == [kind |-> "files", page |-> p, sha |-> <<>>]

ChecksRequest(sha) == [kind |-> "checks", page |-> 0, sha |-> sha]

\* githubRequest up to its await: fetch() is called and the request is under way.
Issue(request) ==
    /\ requests' = Append(requests, request)
    /\ inflight' = inflight \cup {Len(requests) + 1}

\* Mutant: the answered request stays outstanding.
Answered_NothingAnswered == inflight

\* The response to the outstanding request has arrived.
Answered == inflight \ {Len(requests)}

\* Mutant: any file under .github/ counts.
isWorkflowFile_AnyGithubFile(file) == StartsWith(file, <<".github/">>)

\* file.filename.startsWith('.github/workflows/')
isWorkflowFile(file) == StartsWith(file, WorkflowsPrefix)

\* prFiles.some(file => file.filename.startsWith('.github/workflows/'))
someWorkflowFile(files) == \E i \in 1..Len(files) : isWorkflowFile(files[i].item)

\* A response as the history keeps it.
Response(kind) == [status |-> kind, mergeable |-> "none", sha |-> <<>>]

PrResponse(body) == [status |-> "ok", mergeable |-> body.mergeable, sha |-> body.head_sha]

\* Mutant: only the token is required.
preconditionsHold_TokenOnly(c) == c.token # ""

\* Lines 255-260: token, owner, repo and prNumber are all truthy.
preconditionsHold(c) == c.token # "" /\ c.owner # "" /\ c.repo # "" /\ c.prNumber # 0

\* Mutant: a request that failed is issued again.
Throw_RetryRequest ==
    /\ pc' = pc
    /\ requests' = Append(requests, requests[Len(requests)])
    /\ inflight' = Answered \cup {Len(requests) + 1}

\* Lines 57-60, or a TypeError on a body that is null: the awaited request
\* throws, nothing catches it and the call ends.
Throw ==
    /\ pc' = "error"
    /\ requests' = requests
    /\ inflight' = Answered

\* Mutant: one attempt more.
retryAgain_OneMore(n) == n <= MaxAttempts

\* Line 263: the loop condition attempt < 4.
retryAgain(n) == n < MaxAttempts

\* Mutant: the loop of githubList has no page cap.
listEnds_NoPageCap(data, p) == ListLen(data) < PerPage

\* Lines 72 and 79-81: after a page that is not empty, the loop of githubList
\* ends on a short page and when the next page number exceeds maxPages.
listEnds(data, p) == ListLen(data) < PerPage \/ p + 1 > MaxPagesDefault

\* Lines 247-264: the precondition checks and the first pull request attempt.
Start ==
    /\ pc = "idle"
    /\ IF preconditionsHold(call)
       THEN /\ pc' = "pr"
            /\ Issue(PrRequest)
       ELSE /\ pc' = "error"
            /\ UNCHANGED <<requests, inflight>>
    /\ UNCHANGED <<evalVars, call, attempt, page, allItems, responses, remoteFiles,
                   remoteCheckRuns>>

\* Line 271 up to the first await of githubList: page 1 is requested.
StartList ==
    /\ page' = 1
    /\ allItems' = <<>>
    /\ pc' = "files"

\* Lines 264-269: a pull request response; the loop ends when mergeable is known.
ReceivePrFrom(prs) ==
    /\ pc = "pr"
    /\ \E kind \in ResponseKinds, body \in prs :
          /\ responses' = Append(responses, IF kind = "ok" THEN PrResponse(body)
                                                            ELSE Response(kind))
          /\ \/ /\ kind = "ok"
                /\ pr' = body
                /\ IF body.mergeable # "null"
                   THEN /\ StartList
                        /\ requests' = Append(requests, FilesRequest(1))
                        /\ inflight' = Answered \cup {Len(requests) + 1}
                   ELSE /\ pc' = "sleep"
                        /\ inflight' = Answered
                        /\ UNCHANGED <<page, allItems, requests>>
             \/ /\ kind \in {"no_content", "error"}
                /\ Throw
                /\ UNCHANGED <<pr, page, allItems>>
    /\ UNCHANGED <<expectedHeadSha, requireWorkflowSafety, workflowFilesChanged, checkRuns,
                   result, call, attempt, remoteFiles, remoteCheckRuns>>

\* Lines 263 and 268-271: the timer of sleep(1500) fires; the next attempt, or
\* the list of files after the last attempt.
WakeUp ==
    /\ pc = "sleep"
    /\ attempt' = attempt + 1
    /\ IF retryAgain(attempt + 1)
       THEN /\ pc' = "pr"
            /\ Issue(PrRequest)
            /\ UNCHANGED <<page, allItems>>
       ELSE /\ StartList
            /\ Issue(FilesRequest(1))
    /\ UNCHANGED <<evalVars, call, responses, remoteFiles, remoteCheckRuns>>

\* Mutant: the check runs are requested for the head sha of the first pull
\* request response.
FinishList_FirstResponseSha(files) ==
    /\ workflowFilesChanged' = someWorkflowFile(files)
    /\ pc' = "checks"
    /\ requests' = Append(requests, ChecksRequest(responses[1].sha))
    /\ inflight' = Answered \cup {Len(requests) + 1}
    /\ UNCHANGED page

\* Lines 272-274: the list is complete; the check runs of pr.head.sha are requested.
FinishList(files) ==
    /\ workflowFilesChanged' = someWorkflowFile(files)
    /\ pc' = "checks"
    /\ requests' = Append(requests, ChecksRequest(pr.head_sha))
    /\ inflight' = Answered \cup {Len(requests) + 1}
    /\ UNCHANGED page

\* Lines 72-82: a page of files; the loop of githubList goes on after a full
\* page while page <= maxPages.  An answer that is no array (204, where
\* githubRequest returns null, or a body that is no array) ends the list like
\* an empty page, whatever the remote holds.
ReceiveFilesPage ==
    /\ pc = "files"
    /\ \E kind \in ResponseKinds :
          /\ responses' = Append(responses, Response(kind))
          /\ \/ /\ kind = "ok"
                /\ LET data == FilesPage(remoteFiles, page) IN
                   IF ListLen(data) = 0
                   THEN /\ allItems' = allItems
                        /\ FinishList(allItems)
                   ELSE /\ allItems' = ListConcat(allItems, data)
                        /\ IF listEnds(data, page)
                           THEN FinishList(ListConcat(allItems, data))
                           ELSE /\ page' = page + 1
                                /\ requests' = Append(requests, FilesRequest(page + 1))
                                /\ inflight' = Answered \cup {Len(requests) + 1}
                                /\ UNCHANGED <<pc, workflowFilesChanged>>
             \/ /\ kind = "no_content"
                /\ allItems' = allItems
                /\ FinishList(allItems)
             \/ /\ kind = "error"
                /\ Throw
                /\ UNCHANGED <<workflowFilesChanged, page, allItems>>
    /\ UNCHANGED <<pr, expectedHeadSha, requireWorkflowSafety, checkRuns, result,
                   call, attempt, remoteFiles, remoteCheckRuns>>

\* Lines 274-283: the check runs response and the evaluation of the snapshot.
\* The answer tells what the remote holds for the commit; after an answer
\* without a body (204) or without a check_runs array the call goes on with no
\* check runs, whatever the remote holds.
ReceiveCheckRunsFrom(remotes) ==
    /\ pc = "checks"
    /\ \E kind \in ResponseKinds :
          /\ responses' = Append(responses, Response(kind))
          /\ \/ /\ kind = "ok"
                /\ \E remote \in remotes :
                      /\ remoteCheckRuns' = remote
                      /\ checkRuns' = ListItems(CheckRunsPage(remote))
                      /\ result' = evaluateMergeEligibilitySnapshot(
                                       pr, expectedHeadSha, requireWorkflowSafety,
                                       workflowFilesChanged, ListItems(CheckRunsPage(remote)))
                /\ pc' = "done"
                /\ inflight' = Answered
                /\ UNCHANGED requests
             \/ /\ kind = "no_content"
                /\ remoteCheckRuns' \in remotes
                /\ checkRuns' = <<>>
                /\ result' = evaluateMergeEligibilitySnapshot(
                                 pr, expectedHeadSha, requireWorkflowSafety,
                                 workflowFilesChanged, <<>>)
                /\ pc' = "done"
                /\ inflight' = Answered
                /\ UNCHANGED requests
             \/ /\ kind = "error"
                /\ Throw
                /\ UNCHANGED <<checkRuns, result, remoteCheckRuns>>
    /\ UNCHANGED <<pr, expectedHeadSha, requireWorkflowSafety, workflowFilesChanged,
                   call, attempt, page, allItems, remoteFiles>>

\* Lines 47-55: fetch is called without a timeout or an abort signal; the
\* remote never answers the outstanding request and the call awaits it for ever.
Stall ==
    /\ inflight # {}
    /\ pc \in {"pr", "files", "checks"}
    /\ pc' = "stalled"
    /\ UNCHANGED <<evalVars, call, attempt, page, allItems, requests, inflight, responses,
                   remoteFiles, remoteCheckRuns>>

ReceivePr == ReceivePrFrom(RemotePrs)

ReceiveCheckRuns == ReceiveCheckRunsFrom(RemoteRunLists)

NextFetch ==
    Start \/ ReceivePr \/ WakeUp \/ ReceiveFilesPage \/ ReceiveCheckRuns \/ Stall

\* FetchSpec: every call, changed-file lists of up to three pages, every pull
\* request answer and every list of check runs.
FetchSpec == InitFetch /\ [][NextFetch]_vars

\* ListSpec: calls that pass the precondition checks, without an expected sha
\* and without workflow safety, changed-file lists of up to beyond the page
\* cap, one pull request and two lists of check runs.  The timer of sleep
\* fires, and for every request the matter is settled: it is answered, or it
\* is one that never will be (Stall), after which the call does nothing more.
InitList ==
    /\ call = [owner |-> "o", repo |-> "r", prNumber |-> 1, token |-> "t"]
    /\ expectedHeadSha = <<>>
    /\ requireWorkflowSafety = FALSE
    /\ pr = NoPr
    /\ workflowFilesChanged = FALSE
    /\ checkRuns = <<>>
    /\ result = NoDecision
    /\ pc = "idle"
    /\ attempt = 0
    /\ page = 0
    /\ allItems = <<>>
    /\ requests = <<>>
    /\ inflight = {}
    /\ responses = <<>>
    /\ remoteFiles \in RemoteFileLists
    /\ remoteCheckRuns = <<>>

ReceiveListPr == ReceivePrFrom(ListPrs)

ReceiveListCheckRuns == ReceiveCheckRunsFrom(ListRunLists)

NextList ==
    Start \/ ReceiveListPr \/ WakeUp \/ ReceiveFilesPage \/ ReceiveListCheckRuns \/ Stall

ListSpec == InitList /\ [][NextList]_vars /\ WF_vars(NextList)

(***************************************************************************)
(* What the claims speak of, stated on the input without the code's Map    *)
(***************************************************************************)
Evaluated == result # NoDecision

NamesIn(runs) == {runs[i].name : i \in 1..Len(runs)}

\* The index of the run of this name that deduplication keeps: no other run of
\* the name has a later time, nor the same time and a later position.
LatestIndex(runs, name) ==
    CHOOSE i \in 1..Len(runs) :
        /\ runs[i].name = name
        /\ \A j \in 1..Len(runs) :
              runs[j].name = name =>
                  \/ runTime(runs[j]) < runTime(runs[i])
                  \/ runTime(runs[j]) = runTime(runs[i]) /\ j <= i

Latest(runs, name) == runs[LatestIndex(runs, name)]

CoverageNamesIn(runs) == {n \in NamesIn(runs) : StartsWith(n, CoveragePrefix)}

RequiredNamesIn(runs) == {QualityName, ReviewName} \cup CoverageNamesIn(runs)

Passed(run) == run.status = "completed" /\ run.conclusion \in {"success", "skipped"}

AllRequiredPresent(runs) ==
    /\ QualityName \in NamesIn(runs)
    /\ ReviewName \in NamesIn(runs)
    /\ CoverageNamesIn(runs) # {}

AllRequiredCompleted(runs) ==
    /\ AllRequiredPresent(runs)
    /\ \A n \in RequiredNamesIn(runs) : Latest(runs, n).status = "completed"

AllRequiredPassed(runs) ==
    /\ AllRequiredPresent(runs)
    /\ \A n \in RequiredNamesIn(runs) : Passed(Latest(runs, n))

WorkflowSafetyPassed(runs) ==
    /\ WorkflowSafetyName \in NamesIn(runs)
    /\ Passed(Latest(runs, WorkflowSafetyName))

GatesPass ==
    /\ pr # NoPr
    /\ pr.state = "open"
    /\ expectedHeadSha = <<>> \/ expectedHeadSha = pr.head_sha
    /\ ~Includes(pr.labels, NoAutoMergeLabel)
    /\ pr.mergeable \notin {"null", "false"}
    /\ pr.mergeable_state \notin {"dirty", "behind"}

\* C1: a decision with reason safe_to_merge is returned only if the PR is open,
\* expectedHeadSha is absent or equals the head sha, the no-auto-merge label is
\* absent, mergeable is neither null nor false, mergeableState is neither
\* dirty nor behind, the latest Quality, review and Coverage Gate (...) runs
\* exist and all passed, and, when requireWorkflowSafety and
\* workflowFilesChanged are both true, the latest Workflow Safety run passed.
C1_SafeOnlyIfAllGatesClear ==
    (Evaluated /\ result.reason = "safe_to_merge") =>
        /\ GatesPass
        /\ AllRequiredPassed(checkRuns)
        /\ (requireWorkflowSafety /\ workflowFilesChanged) => WorkflowSafetyPassed(checkRuns)

\* A run of this name is in the list that is not the one deduplication keeps,
\* and it did not pass.
SupersededFailure(runs, name) ==
    \E i \in 1..Len(runs) :
        /\ runs[i].name = name
        /\ i # LatestIndex(runs, name)
        /\ ~Passed(runs[i])

\* Safe to merge with the workflow safety gate in force, decided by the latest
\* of several review runs, the earlier of which failed.
C1_Witness ==
    /\ Evaluated
    /\ result.reason = "safe_to_merge"
    /\ expectedHeadSha = pr.head_sha
    /\ requireWorkflowSafety /\ workflowFilesChanged
    /\ result.requires_workflow_safety
    /\ WorkflowSafetyPassed(checkRuns)
    /\ SupersededFailure(checkRuns, ReviewName)

\* What the ordered cascade of the first six gates prescribes for the input,
\* "none" when no gate matches.
GateReason ==
    IF pr = NoPr \/ pr.state # "open" THEN "pr_not_open"
    ELSE IF expectedHeadSha # <<>> /\ expectedHeadSha # pr.head_sha THEN "sha_mismatch"
    ELSE IF \E i \in 1..Len(pr.labels) : pr.labels[i] = NoAutoMergeLabel THEN "no_auto_merge_label"
    ELSE IF pr.mergeable = "null" THEN "pending_checks"
    ELSE IF pr.mergeable = "false" \/ pr.mergeable_state = "dirty" THEN "merge_conflict"
    ELSE IF pr.mergeable_state = "behind" THEN "behind_main"
    ELSE "none"

\* C2: the first six gates are applied in strict order and the first that
\* matches decides the reason whatever the check runs are: pr_not_open,
\* sha_mismatch, no_auto_merge_label, pending_checks (mergeable unknown),
\* merge_conflict, behind_main.
C2_GatesInStrictOrder ==
    (Evaluated /\ GateReason # "none") => result.reason = GateReason

C2_Witness ==
    /\ Evaluated
    /\ pr # NoPr
    /\ pr.state = "open"
    /\ pr.mergeable = "true"
    /\ pr.mergeable_state = "behind"
    /\ AllRequiredPassed(checkRuns)
    /\ result.reason = "behind_main"

\* C3: in every returned decision eligible is true exactly when the reason is
\* safe_to_merge.
C3_EligibleIffSafeToMerge ==
    Evaluated => (result.eligible <=> result.reason = "safe_to_merge")

C3_Witness ==
    /\ Evaluated
    /\ result.eligible
    /\ result.reason = "safe_to_merge"

ScenarioA ==
    /\ pr # NoPr
    /\ pr.state = "open"
    /\ pr.mergeable = "true"
    /\ pr.mergeable_state = "clean"
    /\ ~Includes(pr.labels, NoAutoMergeLabel)
    /\ ~workflowFilesChanged
    /\ checkRuns = <<Run(AutomationGateName, Success, 1, 0)>>

\* C4: Scenario A: an open, mergeable, clean PR without the opt-out label and
\* without workflow-file changes, whose check runs are the required check
\* 'Automation Gate' completed with success, is safe_to_merge with
\* requiresWorkflowSafety false.
C4_ScenarioA ==
    (Evaluated /\ ScenarioA) =>
        /\ result.reason = "safe_to_merge"
        /\ result.requires_workflow_safety = FALSE

\* C5: every decision, the short-circuited ones included, carries
\* requiresWorkflowSafety = requireWorkflowSafety AND workflowFilesChanged.
C5_RequiresWorkflowSafetyOnEveryBranch ==
    Evaluated =>
        result.requires_workflow_safety = (requireWorkflowSafety /\ workflowFilesChanged)

\* What the latest Workflow Safety run alone prescribes.
WorkflowSafetyReason(runs) ==
    IF WorkflowSafetyName \notin NamesIn(runs) THEN "workflow_safety_missing"
    ELSE IF Latest(runs, WorkflowSafetyName).status # "completed" THEN "pending_checks"
    ELSE IF Latest(runs, WorkflowSafetyName).conclusion \notin {"success", "skipped"}
    THEN "workflow_safety_failed"
    ELSE "safe_to_merge"

\* C6: when requireWorkflowSafety and workflowFilesChanged are both true, the
\* first six gates pass and every required run passed, the latest Workflow
\* Safety run alone decides: workflow_safety_missing without one,
\* pending_checks when it is not completed, workflow_safety_failed when it
\* completed outside {success, skipped}, safe_to_merge otherwise.
C6_WorkflowSafetyDecides ==
    (/\ Evaluated
     /\ requireWorkflowSafety
     /\ workflowFilesChanged
     /\ GatesPass
     /\ AllRequiredPassed(checkRuns)) => result.reason = WorkflowSafetyReason(checkRuns)

C6_Witness ==
    /\ Evaluated
    /\ requireWorkflowSafety
    /\ workflowFilesChanged
    /\ AllRequiredPassed(checkRuns)
    /\ WorkflowSafetyName \in NamesIn(checkRuns)
    /\ Latest(checkRuns, WorkflowSafetyName).conclusion = "failure"
    /\ result.reason = "workflow_safety_failed"

FailedRun(run) == run.status = "completed" /\ run.conclusion \notin {"success", "skipped"}

\* C7: when the first six gates pass, all required runs are present and
\* completed and at least one of them failed, the reason is review_failed
\* whenever the review run is among the failed ones, and pending_checks when
\* only other required runs failed.
C7_ReviewFailureTakesPrecedence ==
    (/\ Evaluated
     /\ GatesPass
     /\ AllRequiredCompleted(checkRuns)
     /\ \E n \in RequiredNamesIn(checkRuns) : FailedRun(Latest(checkRuns, n))) =>
        result.reason = IF FailedRun(Latest(checkRuns, ReviewName))
                        THEN "review_failed" ELSE "pending_checks"

C7_Witness ==
    /\ Evaluated
    /\ AllRequiredCompleted(checkRuns)
    /\ FailedRun(Latest(checkRuns, ReviewName))
    /\ FailedRun(Latest(checkRuns, QualityName))
    /\ result.reason = "review_failed"

IndicesOf(runs, name) == {i \in 1..Len(runs) : runs[i].name = name}

\* Several runs of the name, every one with a startedAt, pairwise different.
SeveralDistinctStarts(runs, name) ==
    /\ Cardinality(IndicesOf(runs, name)) >= 2
    /\ \A i \in IndicesOf(runs, name) : runs[i].started_at # 0
    /\ \A i, j \in IndicesOf(runs, name) : i # j => runs[i].started_at # runs[j].started_at

LatestStart(runs, name) ==
    CHOOSE t \in {runs[i].started_at : i \in IndicesOf(runs, name)} :
        \A i \in IndicesOf(runs, name) : runs[i].started_at <= t

\* The list without the runs of the name that are not its latest-started run.
OnlyLatestStarted(runs, name) ==
    LET keep(run) == run.name # name \/ run.started_at = LatestStart(runs, name)
    IN SelectSeq(runs, keep)

DecisionWith(runs) ==
    evaluateMergeEligibilitySnapshot(pr, expectedHeadSha, requireWorkflowSafety,
                                     workflowFilesChanged, runs)

SeqItems(seq) == {seq[i] : i \in 1..Len(seq)}

\* Two decisions that differ at most in the order in which details lists its checks.
SameUpToDetailsOrder(d, e) ==
    /\ d.reason = e.reason
    /\ d.eligible = e.eligible
    /\ d.requires_workflow_safety = e.requires_workflow_safety
    /\ d.details.msg = e.details.msg
    /\ d.details.n = e.details.n
    /\ Len(d.details.args) = Len(e.details.args)
    /\ SeqItems(d.details.args) = SeqItems(e.details.args)

\* C8 as stated: with several runs of a name whose startedAt are pairwise
\* different, the decision equals the decision obtained with only the
\* latest-started run of that name present.
C8_DecisionEqualsLatestOnly ==
    Evaluated =>
        \A name \in NamesIn(checkRuns) :
            SeveralDistinctStarts(checkRuns, name) =>
                result = DecisionWith(OnlyLatestStarted(checkRuns, name))

\* C8 amended: with several runs of a name whose startedAt are pairwise
\* different, the decision has the reason, eligible, requiresWorkflowSafety and
\* details of the decision obtained with only the latest-started run of that
\* name present, except that details may list the checks in another order.
C8_DecisionOfLatestOnlyUpToOrder ==
    Evaluated =>
        \A name \in NamesIn(checkRuns) :
            SeveralDistinctStarts(checkRuns, name) =>
                SameUpToDetailsOrder(result, DecisionWith(OnlyLatestStarted(checkRuns, name)))

\* A later-started failed run placed before the earlier successful run of the
\* same name: the failed one decides.
C8_Witness ==
    /\ Evaluated
    /\ QualityName \in NamesIn(checkRuns)
    /\ SeveralDistinctStarts(checkRuns, ReviewName)
    /\ \E i, j \in IndicesOf(checkRuns, ReviewName) :
          /\ i < j
          /\ checkRuns[i].started_at > checkRuns[j].started_at
          /\ checkRuns[i].conclusion = "failure"
          /\ checkRuns[j].conclusion = "success"
    /\ SeveralDistinctStarts(checkRuns, CoverageUnit)
    /\ result.reason = "review_failed"

(***************************************************************************)
(* The fetcher                                                             *)
(***************************************************************************)
\* C9: the fetcher retrieves all check runs reported against the head commit:
\* however many the remote holds (more than one page of 100 included), every
\* one of them is in the checkRuns passed to the evaluator.
C9_AllCheckRunsFetched ==
    pc = "done" =>
        /\ Len(checkRuns) = ListLen(remoteCheckRuns)
        /\ checkRuns = ListItems(remoteCheckRuns)

\* githubList has returned and workflowFilesChanged is computed.
FilesListed == pc \in {"checks", "done"}

RemoteHasWorkflowFile ==
    \E i \in 1..Len(remoteFiles) : StartsWith(remoteFiles[i].item, WorkflowsPrefix)

\* C10 as stated: workflowFilesChanged is true exactly when some file of the
\* remote's changed-file list, over all of its pages, is under .github/workflows/.
C10_WorkflowFilesChangedOverAllPages ==
    FilesListed => (workflowFilesChanged <=> RemoteHasWorkflowFile)

C10_Witness ==
    /\ FilesListed
    /\ workflowFilesChanged
    /\ ListLen(remoteFiles) > PerPage
    /\ ~StartsWith(remoteFiles[1].item, WorkflowsPrefix)

(***************************************************************************)
(* The requests of one call                                                *)
(***************************************************************************)
RequestIndices(kind) == {i \in 1..Len(requests) : requests[i].kind = kind}

PrRequestCount == Cardinality(RequestIndices("pr"))

\* Request i was a pull request attempt and its response reported mergeable as
\* unknown (known).
AnsweredUnknown(i) ==
    /\ i \in 1..Len(responses)
    /\ requests[i].kind = "pr"
    /\ responses[i].status = "ok"
    /\ responses[i].mergeable = "null"

AnsweredKnown(i) ==
    /\ i \in 1..Len(responses)
    /\ requests[i].kind = "pr"
    /\ responses[i].status = "ok"
    /\ responses[i].mergeable # "null"

\* The snapshot is open, has the expected sha and no opt-out label.
FirstThreeGatesPass ==
    /\ pr # NoPr
    /\ pr.state = "open"
    /\ expectedHeadSha = <<>> \/ expectedHeadSha = pr.head_sha
    /\ ~Includes(pr.labels, NoAutoMergeLabel)

\* The call has no token, owner, repo or prNumber.
InvalidCall == call.token = "" \/ call.owner = "" \/ call.repo = "" \/ call.prNumber = 0

\* C11: in one call that passes its preconditions the pull request is requested
\* at least once and at most 4 times; an attempt after the first is issued
\* only after a response that reported mergeable as null, and none after a
\* response that reported it as known; after a 4th response with mergeable null
\* the call goes on to the changed files with that snapshot, and for an open PR
\* with matching sha and no opt-out label the decision is pending_checks.
C11_MergeabilityRetryLoop ==
    /\ PrRequestCount <= MaxAttempts
    /\ (pc # "idle" /\ ~InvalidCall) => PrRequestCount >= 1
    /\ \A i \in RequestIndices("pr") : i > 1 => AnsweredUnknown(i - 1)
    /\ \A i \in 1..Len(responses) :
          AnsweredKnown(i) => \A j \in RequestIndices("pr") : j <= i
    /\ AnsweredUnknown(MaxAttempts) =>
          /\ pc = "sleep" \/ (Len(requests) > MaxAttempts
                               /\ requests[MaxAttempts + 1].kind = "files")
          /\ pc \in {"sleep", "files", "checks", "done"} =>
                 pr.mergeable = "null" /\ pr.head_sha = responses[MaxAttempts].sha
          /\ (pc = "done" /\ FirstThreeGatesPass) => result.reason = "pending_checks"

\* The 4th response still reported mergeable as null and the call returned
\* pending_checks for an open pull request with the expected sha.
C11_Witness ==
    /\ pc = "done"
    /\ PrRequestCount = MaxAttempts
    /\ AnsweredUnknown(MaxAttempts)
    /\ FirstThreeGatesPass
    /\ expectedHeadSha = pr.head_sha
    /\ result.reason = "pending_checks"

\* C12: a request that received a non-success HTTP response is the last
\* request of the call (it is not issued again and no request follows it), the
\* call has ended with an error and no decision is produced.
C12_NonSuccessAbortsTheCall ==
    \A i \in 1..Len(responses) :
        responses[i].status = "error" =>
            /\ i = Len(requests)
            /\ inflight = {}
            /\ pc = "error"
            /\ result = NoDecision

\* The second page of changed files was answered with a non-success status,
\* after a pull request attempt that was repeated.
C12_Witness ==
    /\ pc = "error"
    /\ responses # <<>>
    /\ Len(responses) = Len(requests)
    /\ responses[Len(responses)].status = "error"
    /\ requests[Len(requests)] = FilesRequest(2)
    /\ PrRequestCount = 2

\* C13: a call without a token, owner, repo or prNumber has issued no request
\* at any point, it stands before its first statement or has failed, and it
\* produces no decision.
C13_PreconditionsBeforeNetwork ==
    InvalidCall =>
        /\ requests = <<>>
        /\ inflight = {}
        /\ pc \in {"idle", "error"}
        /\ result = NoDecision

\* A call with a token but without a prNumber has failed.
C13_Witness ==
    /\ pc = "error"
    /\ call.token # ""
    /\ call.prNumber = 0
    /\ requests = <<>>

(***************************************************************************)
(* githubList                                                              *)
(***************************************************************************)
FilesRequestCount == Cardinality(RequestIndices("files"))

\* The position in requests of the request for page p of the changed files.
FilesRequestIndex(p) == CHOOSE i \in RequestIndices("files") : requests[i].page = p

\* The page was answered and ends the list: no list, an empty one or a short one.
EndsTheList(p) ==
    LET i == FilesRequestIndex(p) IN
    /\ i <= Len(responses)
    /\ \/ responses[i].status = "no_content"
       \/ responses[i].status = "ok" /\ ListLen(FilesPage(remoteFiles, p)) < PerPage

\* The items of pages 1..k of the remote's list, page after page.
RECURSIVE PagesConcat(_)
PagesConcat(k) ==
    IF k = 0 THEN <<>> ELSE ListConcat(PagesConcat(k - 1), FilesPage(remoteFiles, k))

\* The pages of changed files that were answered with a list.
ListedPages ==
    {p \in 1..FilesRequestCount :
        /\ FilesRequestIndex(p) <= Len(responses)
        /\ responses[FilesRequestIndex(p)].status = "ok"}

\* The items of the pages that githubList read, page after page.
PagesRead == PagesConcat(Cardinality(ListedPages))

\* githubList has returned (the check runs request follows its return).
ListReturned == RequestIndices("checks") # {}

\* C10 amended: workflowFilesChanged is true exactly when some file of the pages
\* that githubList read is under .github/workflows/: the pages of the remote's
\* changed-file list from the first one up to the first page that is short or
\* empty or is answered without an array, 20 pages at most; files on later
\* pages and on a page answered without an array are not seen.
C10_WorkflowFilesChangedOverPagesRead ==
    FilesListed =>
        /\ ListedPages = 1..Cardinality(ListedPages)
        /\ Cardinality(ListedPages) <= MaxPagesDefault
        /\ workflowFilesChanged <=>
               \E i \in 1..Len(PagesRead) : StartsWith(PagesRead[i].item, WorkflowsPrefix)

C14_PagesInOrderUnderTheCap ==
    /\ FilesRequestCount <= MaxPagesDefault
    /\ \A i \in RequestIndices("files") :
          /\ requests[i].page \in 1..FilesRequestCount
          /\ \A j \in RequestIndices("files") : i < j <=> requests[i].page < requests[j].page
    /\ \A p \in 1..FilesRequestCount : EndsTheList(p) => p = FilesRequestCount
    /\ ListReturned =>
          /\ FilesRequestCount >= 1
          /\ EndsTheList(FilesRequestCount) \/ FilesRequestCount = MaxPagesDefault
          /\ allItems = PagesRead

\* githubList has returned or has thrown.
ListEnded == ListReturned \/ pc = "error"

Rank(kind) == CASE kind = "pr" -> 1 [] kind = "files" -> 2 [] kind = "checks" -> 3

\* C15: at most one request is outstanding at any moment: a request is issued
\* only when every request before it has its response, and the requests go out
\* in the order pull request (with retries), changed files pages, check runs.
C15_OneOutstandingRequest ==
    /\ Cardinality(inflight) <= 1
    /\ inflight \subseteq {Len(requests)}
    /\ Len(responses) = Len(requests) - Cardinality(inflight)
    /\ requests # <<>> => requests[1].kind = "pr"
    /\ \A i \in 1..(Len(requests) - 1) :
          Rank(requests[i].kind) <= Rank(requests[i + 1].kind)
    /\ Cardinality(RequestIndices("checks")) <= 1

\* The check runs request is outstanding after two pull request attempts and
\* two pages of files, all answered.
C15_Witness ==
    /\ pc = "checks"
    /\ inflight = {Len(requests)}
    /\ PrRequestCount = 2
    /\ FilesRequestCount = 2
    /\ Len(requests) = 5

(***************************************************************************)
(* The required runs                                                       *)
(***************************************************************************)
\* The required runs that the input lacks; the coverage checks stand under
\* their common prefix.
MissingRequired(runs) ==
    {n \in {QualityName, ReviewName} : n \notin NamesIn(runs)}
    \cup (IF CoverageNamesIn(runs) = {} THEN {CoveragePrefix} ELSE {})

\* The required runs that a details text names as not started.
NamedMissing(details) ==
    CASE details.msg = "Quality check has not started yet" -> {QualityName}
      [] details.msg = "review check has not started yet" -> {ReviewName}
      [] details.msg = "Coverage Gate checks have not started yet" -> {CoveragePrefix}
      [] OTHER -> {}

\* C16: when the first six gates pass and required runs are missing, the
\* decision is pending_checks and its details name every missing required run.
C16_MissingRunsEnumerated ==
    (Evaluated /\ GatesPass /\ MissingRequired(checkRuns) # {}) =>
        /\ result.reason = "pending_checks"
        /\ MissingRequired(checkRuns) \subseteq NamedMissing(result.details)

\* The input without its Workflow Safety runs.
WithoutWorkflowSafety(runs) ==
    LET keep(run) == run.name # WorkflowSafetyName IN SelectSeq(runs, keep)

\* C17: when requireWorkflowSafety or workflowFilesChanged is false, the reason
\* is the one the same input without any Workflow Safety run gets (so any two
\* inputs that differ only in their Workflow Safety runs get the same reason),
\* and it is neither workflow_safety_missing nor workflow_safety_failed.
C17_WorkflowSafetyIgnoredUnlessRequired ==
    (Evaluated /\ ~(requireWorkflowSafety /\ workflowFilesChanged)) =>
        /\ result.reason \notin {"workflow_safety_missing", "workflow_safety_failed"}
        /\ result.reason = DecisionWith(WithoutWorkflowSafety(checkRuns)).reason

\* Workflow safety is asked for but no workflow file changed: a failed Workflow
\* Safety run beside passed required runs leaves the PR safe to merge.
C17_Witness ==
    /\ Evaluated
    /\ requireWorkflowSafety
    /\ ~workflowFilesChanged
    /\ AllRequiredPassed(checkRuns)
    /\ WorkflowSafetyName \in NamesIn(checkRuns)
    /\ Latest(checkRuns, WorkflowSafetyName).conclusion = "failure"
    /\ result.reason = "safe_to_merge"

(***************************************************************************)
(* The commit of the check runs                                            *)
(***************************************************************************)
\* The position of the last pull request attempt.
LastPrIndex == CHOOSE i \in RequestIndices("pr") : \A j \in RequestIndices("pr") : j <= i

\* C18: the check runs request carries the head sha of the last pull request
\* response of the retry loop, that response is the snapshot given to the
\* evaluator, and so a safe_to_merge decision with an expectedHeadSha rests on
\* check runs requested for exactly that sha.
C18_CheckRunsOfTheSnapshotSha ==
    /\ \A i \in RequestIndices("checks") :
          /\ requests[i].sha = responses[LastPrIndex].sha
          /\ pr.head_sha = responses[LastPrIndex].sha
          /\ pr.mergeable = responses[LastPrIndex].mergeable
    /\ (pc = "done" /\ result.reason = "safe_to_merge" /\ expectedHeadSha # <<>>) =>
          /\ requests[Len(requests)].kind = "checks"
          /\ requests[Len(requests)].sha = expectedHeadSha

\* The head sha changed between two attempts and the call returned
\* safe_to_merge for the expected sha.
C18_Witness ==
    /\ pc = "done"
    /\ result.reason = "safe_to_merge"
    /\ expectedHeadSha = ShaA
    /\ PrRequestCount = 2
    /\ responses[1].sha = ShaB
    /\ responses[2].sha = ShaA
    /\ requests[Len(requests)].sha = ShaA

\* C19: when the first six gates pass and all required runs are present but
\* one of them is not completed, the reason is pending_checks, also with a
\* review run that completed with a failing conclusion; review_failed is
\* returned only when every required run is completed.
C19_PendingBeforeReviewFailed ==
    (Evaluated /\ GatesPass /\ AllRequiredPresent(checkRuns)) =>
        /\ (\E n \in RequiredNamesIn(checkRuns) : Latest(checkRuns, n).status # "completed") =>
               result.reason = "pending_checks"
        /\ result.reason = "review_failed" => AllRequiredCompleted(checkRuns)

\* The review run failed while Quality is still in progress: pending_checks.
C19_Witness ==
    /\ Evaluated
    /\ AllRequiredPresent(checkRuns)
    /\ FailedRun(Latest(checkRuns, ReviewName))
    /\ Latest(checkRuns, QualityName).status = "in_progress"
    /\ result.reason = "pending_checks"

(***************************************************************************)
(* latestRunsByName                                                        *)
(***************************************************************************)
\* startedAt, else completedAt, else epoch zero.
Timestamp(run) ==
    IF run.started_at # 0 THEN run.started_at
    ELSE IF run.completed_at # 0 THEN run.completed_at
    ELSE 0

\* The greatest timestamp among the runs of the name.
GreatestTimestamp(runs, name) ==
    CHOOSE t \in {Timestamp(runs[i]) : i \in IndicesOf(runs, name)} :
        \A i \in IndicesOf(runs, name) : Timestamp(runs[i]) <= t

\* The last position of a run of the name with the greatest timestamp.
LastGreatestIndex(runs, name) ==
    CHOOSE i \in IndicesOf(runs, name) :
        /\ Timestamp(runs[i]) = GreatestTimestamp(runs, name)
        /\ \A j \in IndicesOf(runs, name) :
              Timestamp(runs[j]) = GreatestTimestamp(runs, name) => j <= i

\* C20: the Map that latestRunsByName builds from the evaluated input holds
\* exactly one run for each name of the input; no run of the name has a
\* greater timestamp (startedAt, else completedAt, else zero) than the kept
\* one, and of the runs that share the greatest timestamp the kept one is the
\* last in the input list.
C20_LatestRunKeptLastOnTies ==
    Evaluated =>
        LET byName == latestRunsByName(checkRuns) IN
        /\ NamesIn(byName) = NamesIn(checkRuns)
        /\ \A i, j \in 1..Len(byName) : byName[i].name = byName[j].name => i = j
        /\ \A i \in 1..Len(byName) :
              /\ \A j \in IndicesOf(checkRuns, byName[i].name) :
                    Timestamp(byName[i]) >= Timestamp(checkRuns[j])
              /\ byName[i] = checkRuns[LastGreatestIndex(checkRuns, byName[i].name)]

\* Two runs of a coverage check share the greatest timestamp, one by its
\* started_at and one by its completed_at; the later one in the list is kept
\* though the other one comes first.
C20_Witness ==
    /\ Evaluated
    /\ \E i, j \in IndicesOf(checkRuns, CoverageUnit) :
          /\ i < j
          /\ checkRuns[i] = Run(CoverageUnit, Success, 2, 0)
          /\ checkRuns[j] = Run(CoverageUnit, Failure, 0, 2)
          /\ j = LastGreatestIndex(checkRuns, CoverageUnit)
          /\ MapGet(latestRunsByName(checkRuns), CoverageUnit) = checkRuns[j]
    /\ Cardinality(IndicesOf(checkRuns, CoverageUnit)) >= 3

====
